---- MODULE Spec2Model ----
(***************************************************************************)
(* A model of src/main.rs of better-ls-rust: the presentation selector     *)
(* (main), the flat listings (get_short_files / get_long_files with        *)
(* map_short_data / map_long_data) and the tree walk (print_tree,          *)
(* print_tree_recursive) over a small file system.                         *)
(*                                                                         *)
(* File names are sequences of bytes (OsString on Unix); printed text is a *)
(* sequence of Unicode code points.  The file system is what the operating *)
(* system answers: the content of a directory is fixed the first time the  *)
(* program reads it and stays the same afterwards.  Items for which the    *)
(* read_dir iterator itself yields Err carry no name and are removed by    *)
(* every code path before anything else is done (`if let Ok(file)`,        *)
(* `filter_map(Result::ok)`); a listing holds the Ok items only.           *)
(***************************************************************************)
EXTENDS Integers, Sequences, FiniteSets, TLC

VARIABLES
    cli,         \* the parsed flags: [tree, json, long, all]
    pathStatus,  \* what fs::exists(&path) answers: "exists", "missing", "err"
    fs,          \* directory id -> what read_dir finds there; Unknown until read
    pc,          \* "start", "call" (entering print_tree_recursive), "loop", "done"
    call,        \* the arguments of the call being entered
    stack,       \* the frames of print_tree_recursive, outermost first
    out,         \* everything printed so far
    ncalls,      \* how many calls of print_tree_recursive got past read_dir
    sortIn,      \* SortSpec: the entries as the OS returned them
    sortOut,     \* SortSpec: the list after entries.sort_by
    sortAgain,   \* SortSpec: the list after sorting sortOut once more
    sortPc       \* SortSpec: "in", "sorted", "resorted"; "off" under Spec

vars == <<cli, pathStatus, fs, pc, call, stack, out, ncalls,
          sortIn, sortOut, sortAgain, sortPc>>

treeVars == <<cli, pathStatus, fs, pc, call, stack, out, ncalls>>
sortVars == <<sortIn, sortOut, sortAgain, sortPc>>

(***************************************************************************)
(* Bounds and program constants                                            *)
(***************************************************************************)
\* the largest number of children a directory of the model holds
MaxEntries == 2

\* the longest list handed to the comparator under SortSpec
MaxSortLen == 3

\* print_tree: print_tree_recursive(path, "", cli, 0, 3, true)
MaxDepth == 3

\* the directories of the model: 0 is the path given on the command line
RootDir == 0
Dirs == {0, 1}

\* ".h", "A", "b"
NamePool == {<<46, 104>>, <<65>>, <<98>>}

\* ".", ".a", "A", "a", "ab", and a name that is not UTF-8
SortPool == {<<46>>, <<46, 97>>, <<65>>, <<97>>, <<97, 98>>, <<255>>}

(***************************************************************************)
(* Text                                                                    *)
(***************************************************************************)
\* "    " and "│   " (U+2502), appended to the prefix for the children
BlankSeg == <<32, 32, 32, 32>>
VertSeg == <<9474, 32, 32, 32>>

\* "└── " and "├── "
TerminalConn == <<9492, 9472, 9472, 32>>
BranchConn == <<9500, 9472, 9472, 32>>

\* OsStr::to_string_lossy: a byte that cannot be UTF-8 becomes U+FFFD.  The
\* names of the model are ASCII bytes and the byte 255, which is never valid.
ToStringLossy(name) ==
    [i \in 1..Len(name) |-> IF name[i] < 128 THEN name[i] ELSE 65533]

\* "unknown name"
UnknownName == <<117, 110, 107, 110, 111, 119, 110, 32, 110, 97, 109, 101>>

\* OsString::into_string().unwrap_or("unknown name".into())
IntoStringOr(name) ==
    IF \A i \in 1..Len(name) : name[i] < 128 THEN name ELSE UnknownName

\* file_name_str.starts_with('.')
StartsWithDot(str) == Len(str) > 0 /\ str[1] = 46

\* the filter of all three listings: !cli.all && starts_with('.') drops
IsShown(all, name) == all \/ ~StartsWithDot(ToStringLossy(name))

(***************************************************************************)
(* The file system                                                         *)
(***************************************************************************)
\* A child: its name, what stat says of it, and for a directory (or a link
\* to one) the directory it leads to.  "Broken" is a child whose metadata
\* cannot be read: a dangling link, a vanished entry.
Entry(n, k, l) == [name |-> n, kind |-> k, link |-> l]

Entries ==
    { Entry(n, "File", -1) : n \in NamePool }
    \cup { Entry(n, "Broken", -1) : n \in NamePool }
    \cup { Entry(n, "Dir", d) : n \in NamePool, d \in Dirs }

\* the names of one directory are distinct
Listings ==
    { S \in SUBSET Entries :
        /\ Cardinality(S) <= MaxEntries
        /\ \A a, b \in S : a.name = b.name => a = b }

\* What read_dir finds: not asked yet; Err (not a directory, or permission
\* denied); or the children.
UnknownDir == [st |-> "Unknown", items |-> {}]
NoRead == [st |-> "NoRead", items |-> {}]
DirOf(S) == [st |-> "Dir", items |-> S]

DirStates == { DirOf(S) : S \in Listings } \cup {NoRead}

\* what the operating system answers for directory d
Discover(d) == IF fs[d] = UnknownDir THEN DirStates ELSE {fs[d]}

\* the orders in which read_dir may return the children S
Orders(S) ==
    { q \in [1..Cardinality(S) -> S] : \A i, j \in 1..Cardinality(S) : q[i] = q[j] => i = j }

\* What stat says of a child is the same each time it is asked.
\* fs::metadata(&file.path()) is Ok
MetadataOk(e) == e.kind # "Broken"

\* meta.is_dir() / entry.path().is_dir(): false when the metadata cannot be read
IsDir(e) == e.kind = "Dir"

(***************************************************************************)
(* Tree order: entries.sort_by(...)                                        *)
(***************************************************************************)
\* OsString::cmp on Unix: the bytes, lexicographically
RECURSIVE CmpBytes(_, _)
CmpBytes(a, b) ==
    IF a = <<>> /\ b = <<>> THEN "Equal"
    ELSE IF a = <<>> THEN "Less"
    ELSE IF b = <<>> THEN "Greater"
    ELSE IF Head(a) < Head(b) THEN "Less"
    ELSE IF Head(a) > Head(b) THEN "Greater"
    ELSE CmpBytes(Tail(a), Tail(b))

\* the comparator without its directories-first arms
TreeCmpNamesOnly(a, b) == CmpBytes(a.name, b.name)

\* the closure given to sort_by
TreeCmp(a, b) ==
    IF IsDir(a) /\ ~IsDir(b) THEN "Less"
    ELSE IF ~IsDir(a) /\ IsDir(b) THEN "Greater"
    ELSE CmpBytes(a.name, b.name)

\* One insertion of the stable sort: e goes behind every element it is not
\* Less than (slice::sort_by sorts short slices by insertion, and any stable
\* sort yields the same list).
RECURSIVE InsertAt(_, _, _)
InsertAt(sorted, e, i) ==
    IF i > 0 /\ TreeCmp(e, sorted[i]) = "Less"
    THEN InsertAt(sorted, e, i - 1)
    ELSE SubSeq(sorted, 1, i) \o <<e>> \o SubSeq(sorted, i + 1, Len(sorted))

RECURSIVE SortFrom(_, _)
SortFrom(sorted, rest) ==
    IF rest = <<>> THEN sorted
    ELSE SortFrom(InsertAt(sorted, Head(rest), Len(sorted)), Tail(rest))

SortBy(entries) == SortFrom(<<>>, entries)

\* entries.into_iter().filter(cli.all || !starts_with(".")).collect()
VisibleEntries(entries, all) ==
    SelectSeq(entries, LAMBDA e : IsShown(all, e.name))

(***************************************************************************)
(* Flat listings                                                           *)
(***************************************************************************)
EntryType(e) == IF IsDir(e) THEN "Dir" ELSE "File"

\* map_short_data: a row is pushed only inside `if let Ok(meta)`
MapShortData(data, file) ==
    IF MetadataOk(file)
    THEN Append(data, [name |-> IntoStringOr(file.name), e_type |-> EntryType(file),
                       permissions |-> "none", owner |-> "none"])
    ELSE data

\* map_long_data: as map_short_data, with the permission bits and the owner
\* (the user's name, or the uid when the name is not known) read from meta
MapLongData(data, file) ==
    IF MetadataOk(file)
    THEN Append(data, [name |-> IntoStringOr(file.name), e_type |-> EntryType(file),
                       permissions |-> "mode", owner |-> "owner"])
    ELSE data

\* get_short_files, for the items read_dir yields in the order rd
RECURSIVE ShortLoop(_, _, _)
ShortLoop(data, rd, all) ==
    IF rd = <<>> THEN data
    ELSE IF ~IsShown(all, Head(rd).name) THEN ShortLoop(data, Tail(rd), all)
    ELSE ShortLoop(MapShortData(data, Head(rd)), Tail(rd), all)

GetShortFiles(rd, all) == ShortLoop(<<>>, rd, all)

\* get_long_files
RECURSIVE LongLoop(_, _, _)
LongLoop(data, rd, all) ==
    IF rd = <<>> THEN data
    ELSE IF ~IsShown(all, Head(rd).name) THEN LongLoop(data, Tail(rd), all)
    ELSE LongLoop(MapLongData(data, Head(rd)), Tail(rd), all)

GetLongFiles(rd, all) == LongLoop(<<>>, rd, all)

(***************************************************************************)
(* Output                                                                  *)
(***************************************************************************)
\* One println!.  t is "msg", "root", "line", "json", "short" or "long"; a
\* line of the tree also records where the walk was when it printed it: the
\* entry, its depth, the directory being listed and the call listing it.
Item(t, text, prefix, conn, entry, depth, dir, id, rows) ==
    [t |-> t, text |-> text, prefix |-> prefix, conn |-> conn, entry |-> entry,
     depth |-> depth, dir |-> dir, call |-> id, rows |-> rows]

NoEntry == Entry(<<>>, "File", -1)

Message(m) == Item("msg", m, <<>>, <<>>, NoEntry, -1, -1, 0, <<>>)
RootLine == Item("root", "root_name", <<>>, <<>>, NoEntry, -1, -1, 0, <<>>)
Records(t, rows) == Item(t, "", <<>>, <<>>, NoEntry, -1, -1, 0, rows)

NoCall == [dir |-> -1, prefix |-> <<>>, depth |-> 0]

(***************************************************************************)
(* main                                                                    *)
(***************************************************************************)
\* the branches of main with json tested before tree
SelectModeJsonFirst(c) ==
    IF c.json THEN "Structured"
    ELSE IF c.tree THEN "Tree"
    ELSE IF c.long THEN "Detailed"
    ELSE "Compact"

\* the branch main takes: if tree / else if json / else if long / else
SelectMode(c) ==
    IF c.tree THEN "Tree"
    ELSE IF c.json THEN "Structured"
    ELSE IF c.long THEN "Detailed"
    ELSE "Compact"

Finish(items) ==
    /\ out' = out \o items
    /\ pc' = "done"
    /\ UNCHANGED <<cli, pathStatus, call, stack, ncalls, sortVars>>

\* fs::exists(&path) is Err
MainExistsErr ==
    /\ pc = "start"
    /\ pathStatus = "err"
    /\ Finish(<<Message("error reading directory")>>)
    /\ UNCHANGED fs

\* fs::exists(&path) is Ok(false)
MainMissing ==
    /\ pc = "start"
    /\ pathStatus = "missing"
    /\ Finish(<<Message("Path does not exists")>>)
    /\ UNCHANGED fs

\* The flat modes read the path's directory once; `if let Ok(read_dir)`
\* leaves data empty when read_dir is Err, and the caller prints the table
\* or the JSON text either way.
FlatListing(t) ==
    \E st \in Discover(RootDir) :
        /\ fs' = [fs EXCEPT ![RootDir] = st]
        /\ \E rd \in Orders(st.items) :
             Finish(<<Records(t, IF t = "short" THEN GetShortFiles(rd, cli.all)
                                                 ELSE GetLongFiles(rd, cli.all))>>)

\* println!(serde_json::to_string_pretty(&get_long_files(&path, &cli)))
MainJson ==
    /\ pc = "start"
    /\ pathStatus = "exists"
    /\ SelectMode(cli) = "Structured"
    /\ FlatListing("json")

\* print_long_table
MainLong ==
    /\ pc = "start"
    /\ pathStatus = "exists"
    /\ SelectMode(cli) = "Detailed"
    /\ FlatListing("long")

\* print_short_table
MainShort ==
    /\ pc = "start"
    /\ pathStatus = "exists"
    /\ SelectMode(cli) = "Compact"
    /\ FlatListing("short")

\* print_tree: the root's name, then print_tree_recursive(path, "", cli, 0, 3, true)
MainTree ==
    /\ pc = "start"
    /\ pathStatus = "exists"
    /\ SelectMode(cli) = "Tree"
    /\ out' = Append(out, RootLine)
    /\ call' = [dir |-> RootDir, prefix |-> <<>>, depth |-> 0]
    /\ pc' = "call"
    /\ UNCHANGED <<cli, pathStatus, fs, stack, ncalls, sortVars>>

(***************************************************************************)
(* print_tree_recursive                                                    *)
(***************************************************************************)
Top == stack[Len(stack)]

\* the guard one level early
TooDeepOneLevelEarly(current_depth, max_depth) == current_depth + 1 >= max_depth

\* the guard with > for >=
TooDeepOffByOne(current_depth, max_depth) == current_depth > max_depth

\* `if current_depth >= max_depth { return; }`
TooDeep(current_depth, max_depth) == current_depth >= max_depth

\* is_last with the index counted from 1 against len() - 1
IsLastOffByOne(index, visible_entries) == index = Len(visible_entries) - 1

\* `let is_last = index == visible_entries.len() - 1`, index counted from 1
IsLast(index, visible_entries) == index = Len(visible_entries)

Connector(is_last) == IF is_last THEN TerminalConn ELSE BranchConn

\* next_prefix with the two segments exchanged
NextPrefixSwapped(prefix, is_last) ==
    IF is_last THEN prefix \o VertSeg ELSE prefix \o BlankSeg

\* format!("{}    ", prefix) / format!("{}│   ", prefix)
NextPrefix(prefix, is_last) ==
    IF is_last THEN prefix \o BlankSeg ELSE prefix \o VertSeg

\* a return after which the caller does not move on to its next entry
ReturnToSameEntry(s) ==
    IF s = <<>>
    THEN /\ pc' = "done"
         /\ stack' = s
    ELSE /\ pc' = "loop"
         /\ stack' = s

\* what `return` does to the frames s: the caller goes on with its next entry
\* (the call is the last statement of the loop body), or the walk is over
ReturnTo(s) ==
    IF s = <<>>
    THEN /\ pc' = "done"
         /\ stack' = s
    ELSE /\ pc' = "loop"
         /\ stack' = [s EXCEPT ![Len(s)].index = @ + 1]

\* entered at or beyond max_depth: return before anything is read
TreeCallTooDeep ==
    /\ pc = "call"
    /\ TooDeep(call.depth, MaxDepth)
    /\ ReturnTo(stack)
    /\ call' = NoCall
    /\ UNCHANGED <<cli, pathStatus, fs, out, ncalls, sortVars>>

\* `let Ok(entries) = fs::read_dir(path) else { return; }`
TreeCallNoRead ==
    /\ pc = "call"
    /\ ~TooDeep(call.depth, MaxDepth)
    /\ NoRead \in Discover(call.dir)
    /\ fs' = [fs EXCEPT ![call.dir] = NoRead]
    /\ ReturnTo(stack)
    /\ call' = NoCall
    /\ UNCHANGED <<cli, pathStatus, out, ncalls, sortVars>>

\* collect, sort_by, filter: the frame starts its loop at the first visible entry
TreeCallList ==
    /\ pc = "call"
    /\ ~TooDeep(call.depth, MaxDepth)
    /\ \E st \in Discover(call.dir) :
         /\ st # NoRead
         /\ fs' = [fs EXCEPT ![call.dir] = st]
         /\ \E rd \in Orders(st.items) :
              stack' = Append(stack,
                  [dir |-> call.dir, prefix |-> call.prefix, depth |-> call.depth,
                   entries |-> VisibleEntries(SortBy(rd), cli.all),
                   index |-> 1, id |-> ncalls + 1])
    /\ ncalls' = ncalls + 1
    /\ pc' = "loop"
    /\ call' = NoCall
    /\ UNCHANGED <<cli, pathStatus, out, sortVars>>

\* println!("{}{}{}", prefix, connector, colored_name)
TreeLine(f) ==
    Item("line", ToStringLossy(f.entries[f.index].name), f.prefix,
         Connector(IsLast(f.index, f.entries)), f.entries[f.index],
         f.depth, f.dir, f.id, <<>>)

\* one turn of the loop for an entry that is not a directory
TreeEmitFile ==
    /\ pc = "loop"
    /\ Top.index <= Len(Top.entries)
    /\ ~IsDir(Top.entries[Top.index])
    /\ out' = Append(out, TreeLine(Top))
    /\ stack' = [stack EXCEPT ![Len(stack)].index = @ + 1]
    /\ UNCHANGED <<cli, pathStatus, fs, pc, call, ncalls, sortVars>>

\* one turn of the loop for a directory: its line, then the recursive call
TreeEmitDir ==
    /\ pc = "loop"
    /\ Top.index <= Len(Top.entries)
    /\ IsDir(Top.entries[Top.index])
    /\ out' = Append(out, TreeLine(Top))
    /\ call' = [dir |-> Top.entries[Top.index].link,
                prefix |-> NextPrefix(Top.prefix, IsLast(Top.index, Top.entries)),
                depth |-> Top.depth + 1]
    /\ pc' = "call"
    /\ UNCHANGED <<cli, pathStatus, fs, stack, ncalls, sortVars>>

\* the loop is over: the function returns to its caller
TreeLoopEnd ==
    /\ pc = "loop"
    /\ Top.index > Len(Top.entries)
    /\ ReturnTo(SubSeq(stack, 1, Len(stack) - 1))
    /\ UNCHANGED <<cli, pathStatus, fs, call, out, ncalls, sortVars>>

(***************************************************************************)
(* The program                                                             *)
(***************************************************************************)
Init ==
    /\ cli \in [tree : BOOLEAN, json : BOOLEAN, long : BOOLEAN, all : BOOLEAN]
    /\ pathStatus \in {"exists", "missing", "err"}
    /\ fs = [d \in Dirs |-> UnknownDir]
    /\ pc = "start"
    /\ call = NoCall
    /\ stack = <<>>
    /\ out = <<>>
    /\ ncalls = 0
    /\ sortIn = <<>>
    /\ sortOut = <<>>
    /\ sortAgain = <<>>
    /\ sortPc = "off"

Next ==
    \/ MainExistsErr
    \/ MainMissing
    \/ MainJson
    \/ MainLong
    \/ MainShort
    \/ MainTree
    \/ TreeCallTooDeep
    \/ TreeCallNoRead
    \/ TreeCallList
    \/ TreeEmitFile
    \/ TreeEmitDir
    \/ TreeLoopEnd

Spec == Init /\ [][Next]_vars

\* The tree walk on its own: print_tree on a path that exists.  The walk
\* reads cli.all only, so json and long are left unset.  The program is one
\* thread that runs to its end: a step that can be taken is taken.
WalkInit ==
    /\ Init
    /\ pathStatus = "exists"
    /\ cli.tree /\ ~cli.json /\ ~cli.long

WalkNext ==
    \/ MainTree
    \/ TreeCallTooDeep
    \/ TreeCallNoRead
    \/ TreeCallList
    \/ TreeEmitFile
    \/ TreeEmitDir
    \/ TreeLoopEnd

WalkSpec == WalkInit /\ [][WalkNext]_vars /\ WF_vars(WalkNext)

(***************************************************************************)
(* The comparator and the sort on their own: the inputs are every list of  *)
(* at most MaxSortLen entries with distinct names, in every order.         *)
(***************************************************************************)
SortEntries ==
    { Entry(n, k, -1) : n \in SortPool, k \in {"File", "Dir", "Broken"} }

SortInputs ==
    { q \in UNION { [1..n -> SortEntries] : n \in 0..MaxSortLen } :
        \A i, j \in 1..Len(q) : q[i].name = q[j].name => i = j }

SortInit ==
    /\ cli = [tree |-> TRUE, json |-> FALSE, long |-> FALSE, all |-> TRUE]
    /\ pathStatus = "exists"
    /\ fs = [d \in Dirs |-> UnknownDir]
    /\ pc = "start"
    /\ call = NoCall
    /\ stack = <<>>
    /\ out = <<>>
    /\ ncalls = 0
    /\ sortIn \in SortInputs
    /\ sortOut = <<>>
    /\ sortAgain = <<>>
    /\ sortPc = "in"

\* entries.sort_by(...) on what read_dir returned
SortOnce ==
    /\ sortPc = "in"
    /\ sortOut' = SortBy(sortIn)
    /\ sortPc' = "sorted"
    /\ UNCHANGED <<sortIn, sortAgain, treeVars>>

\* the same sort applied to the list it produced
SortTwice ==
    /\ sortPc = "sorted"
    /\ sortAgain' = SortBy(sortOut)
    /\ sortPc' = "resorted"
    /\ UNCHANGED <<sortIn, sortOut, treeVars>>

SortNext == SortOnce \/ SortTwice

SortSpec == SortInit /\ [][SortNext]_vars

(***************************************************************************)
(* What the claims speak of, stated from the file system and the output    *)
(***************************************************************************)
\* the children of directory d that a listing with the flag `all` must show
Shown(d, all) == { e \in fs[d].items : all \/ e.name[1] # 46 }

\* a is byte-wise smaller than b
LexLess(a, b) ==
    \E k \in 1..Len(b) :
        /\ k <= Len(a) + 1
        /\ \A i \in 1..(k - 1) : a[i] = b[i]
        /\ (k = Len(a) + 1 \/ a[k] < b[k])

\* tree order: a directory before a non-directory, otherwise by name
SortsBefore(a, b) ==
    \/ (a.kind = "Dir" /\ b.kind # "Dir")
    \/ ((a.kind = "Dir") = (b.kind = "Dir") /\ LexLess(a.name, b.name))

\* e is the last of the shown children of d in tree order
IsLastSibling(e, d, all) ==
    \A x \in Shown(d, all) \ {e} : SortsBefore(x, e)

Lines == { j \in 1..Len(out) : out[j].t = "line" }

\* the lines printed by call c (the siblings of one listed directory)
Siblings(c) == { j \in Lines : out[j].call = c }

\* The walk is pre-order: when the directory printed on line i is expanded,
\* the line of its first child is the next one, one level deeper, and the
\* call that prints it prints all of them.
ChildrenOf(i) ==
    IF i < Len(out) /\ out[i + 1].depth = out[i].depth + 1
    THEN Siblings(out[i + 1].call)
    ELSE {}

\* line i prints a directory that can be read and has a child to show
Expandable(i) ==
    /\ out[i].entry.kind = "Dir"
    /\ fs[out[i].entry.link].st = "Dir"
    /\ Shown(out[i].entry.link, cli.all) # {}

\* out only grows: every line is the last item of out in the state that
\* follows its printing, and the frame that printed it is then on top of
\* the stack, over the frames of its ancestors.
Newest == out[Len(out)]
JustPrinted == out # <<>> /\ Newest.t = "line" /\ stack # <<>> /\ Top.id = Newest.call

TreeRan == pathStatus = "exists" /\ cli.tree

(***************************************************************************)
(* C4 (SortSpec)                                                           *)
(***************************************************************************)
SamePermutation(p, q) ==
    /\ Len(p) = Len(q)
    /\ { p[i] : i \in 1..Len(p) } = { q[i] : i \in 1..Len(q) }

\* C4: the comparator of the tree's sort is a strict total order on the
\* entries of one directory (exactly one of a-before-b, b-before-a for two
\* entries, transitive), it puts a directory before a non-directory and
\* otherwise the byte-wise smaller name first; the sorted list is the input
\* rearranged and in that order, it is the same for every order in which
\* the OS may return the entries, and sorting it again leaves it unchanged.
C4_TreeOrderStrictTotal ==
    LET E == { sortIn[i] : i \in 1..Len(sortIn) }
    IN  /\ \A a, b \in E :
            /\ (a = b) <=> (TreeCmp(a, b) = "Equal")
            /\ (TreeCmp(a, b) = "Less") <=> (TreeCmp(b, a) = "Greater")
            /\ (TreeCmp(a, b) = "Less") <=> SortsBefore(a, b)
        /\ \A a, b, c \in E :
            (TreeCmp(a, b) = "Less" /\ TreeCmp(b, c) = "Less") => TreeCmp(a, c) = "Less"
        /\ sortPc \in {"sorted", "resorted"} =>
            /\ SamePermutation(sortIn, sortOut)
            /\ \A i, j \in 1..Len(sortOut) : i < j => SortsBefore(sortOut[i], sortOut[j])
            /\ \A q \in Orders(E) : SortBy(q) = sortOut
        /\ sortPc = "resorted" => sortAgain = sortOut

\* three entries, directories and others mixed, returned out of order
C4_Witness ==
    /\ sortPc = "resorted"
    /\ Len(sortIn) = 3
    /\ sortOut # sortIn
    /\ \E i, j \in 1..3 : sortIn[i].kind = "Dir" /\ sortIn[j].kind # "Dir"
    /\ \E i, j \in 1..3 : i # j /\ sortIn[i].kind = sortIn[j].kind

(***************************************************************************)
(* C1, C2, C3, C8: main and the flat listings                              *)
(***************************************************************************)
\* the flat listing printed, when one was
FlatRan == pc = "done" /\ Len(out) = 1 /\ out[1].t \in {"json", "long", "short"}

RowNames == { out[1].rows[i].name : i \in 1..Len(out[1].rows) }

\* the names on the tree's lines for the children of the root
RootLineNames == { out[j].text : j \in { i \in Lines : out[i].depth = 0 } }

\* C1: a child whose metadata cannot be read while the others can still has
\* a row in the detailed table and in the compact table.
C1_RowForUnreadableMetadata ==
    (FlatRan /\ out[1].t \in {"long", "short"}) =>
        \A e \in Shown(RootDir, cli.all) :
            ( /\ ~MetadataOk(e)
              /\ fs[RootDir].items \ {e} # {}
              /\ \A x \in fs[RootDir].items \ {e} : MetadataOk(x) )
                => e.name \in RowNames

\* C2: in every mode the entries listed for a directory are exactly its
\* children whose name does not start with '.' when hidden entries are off,
\* and all its children when they are on.
C2_ListedIsExactlyShown ==
    /\ FlatRan /\ fs[RootDir].st = "Dir" =>
         RowNames = { e.name : e \in Shown(RootDir, cli.all) }
    /\ (pc = "done" /\ TreeRan /\ fs[RootDir].st = "Dir") =>
         RootLineNames = { e.name : e \in Shown(RootDir, cli.all) }

\* C3: when the path does not exist or cannot be read as a directory, a
\* message is printed and nothing else: no table, no tree line, no records.
C3_PathFailureOnlyMessage ==
    (pc = "done" /\ (pathStatus # "exists" \/ fs[RootDir] = NoRead)) =>
        /\ out # <<>>
        /\ \A i \in 1..Len(out) : out[i].t = "msg"

\* C8: on an existing path exactly one presentation runs: the tree if tree
\* is set, else the records if json is set, else the detailed table if
\* long is set, else the compact table.
C8_OneModeByPrecedence ==
    (pc # "start" /\ pathStatus = "exists") =>
        LET kinds == { out[i].t : i \in 1..Len(out) }
        IN  /\ cli.tree => (out[1].t = "root" /\ kinds \subseteq {"root", "line"})
            /\ (~cli.tree /\ cli.json) => (Len(out) = 1 /\ kinds = {"json"})
            /\ (~cli.tree /\ ~cli.json /\ cli.long) => (Len(out) = 1 /\ kinds = {"long"})
            /\ (~cli.tree /\ ~cli.json /\ ~cli.long) => (Len(out) = 1 /\ kinds = {"short"})

\* every flag set: the tree alone has run to its end and printed lines
C8_Witness ==
    /\ pc = "done"
    /\ pathStatus = "exists"
    /\ cli.tree /\ cli.json /\ cli.long
    /\ Lines # {}

(***************************************************************************)
(* C5, C9, C10: the depth of the walk                                      *)
(***************************************************************************)
\* C5: with the children of the root at depth 0, no line is printed for a
\* node at depth MaxDepth or deeper (no line is indented by MaxDepth
\* segments or more, and no call lists a directory at that depth), so a
\* directory printed at the deepest listed level has none of its children
\* printed.
C5_NoLineAtMaxDepth ==
    /\ \A i \in 1..Len(stack) : stack[i].depth < MaxDepth
    /\ (out # <<>> /\ Newest.t = "line") =>
         /\ Newest.depth < MaxDepth
         /\ Len(Newest.prefix) < 4 * MaxDepth
    /\ pc = "done" =>
         \A j \in Lines : out[j].depth = MaxDepth - 1 => ChildrenOf(j) = {}

\* the walk is over and printed, at the deepest listed level, a readable
\* directory that has children to show
C5_Witness ==
    /\ pc = "done"
    /\ \E j \in Lines : out[j].depth = MaxDepth - 1 /\ Expandable(j)

\* C9 as stated: the children of a printed directory are listed if and only
\* if the directory's depth is below MaxDepth, so a directory at depth 2 is
\* expanded.
C9_ExpandedIffBelowMax ==
    pc = "done" =>
        \A i \in Lines :
            Expandable(i) => ((ChildrenOf(i) # {}) <=> (out[i].depth < MaxDepth))

\* C9 amended: the children of a printed directory that can be read are
\* listed, all the shown ones, if and only if the directory's depth plus one
\* is below MaxDepth; a directory at depth 2 is printed and not expanded.
C9_ExpandedIffChildDepthBelowMax ==
    pc = "done" =>
        \A i \in Lines :
            Expandable(i) =>
                /\ (ChildrenOf(i) # {}) <=> (out[i].depth + 1 < MaxDepth)
                /\ out[i].depth + 1 < MaxDepth =>
                     { out[j].entry : j \in ChildrenOf(i) }
                         = Shown(out[i].entry.link, cli.all)

\* the walk is over; it expanded a directory at depth 1 and printed, without
\* expanding it, a readable, non-empty directory at depth 2
C9_Witness ==
    /\ pc = "done"
    /\ \E i, j \in Lines :
        /\ out[i].depth = 1 /\ Expandable(i) /\ j \in ChildrenOf(i)
        /\ out[j].depth = 2 /\ Expandable(j) /\ ChildrenOf(j) = {}

\* C10: the walk terminates, also on a directory graph with cycles: the
\* frames never number more than MaxDepth, a call is entered one level
\* below its caller, the lines printed stay within the number of nodes of a
\* tree of MaxDepth levels, and the walk reaches its end.
C10_DepthBounded ==
    /\ Len(stack) <= MaxDepth
    /\ \A i \in 1..Len(stack) : stack[i].depth = i - 1
    /\ pc = "call" => call.depth = Len(stack)
    /\ Cardinality(Lines)
         <= MaxEntries + MaxEntries * MaxEntries + MaxEntries * MaxEntries * MaxEntries

C10_WalkTerminates == []C10_DepthBounded /\ <>(pc = "done")

\* the walk is over and went around a cycle: the root was listed again, two
\* levels down
C10_Witness ==
    /\ pc = "done"
    /\ \E j \in Lines : out[j].depth = 2 /\ out[j].dir = RootDir

(***************************************************************************)
(* C6, C7: prefixes and connectors                                         *)
(***************************************************************************)
\* the prefix read back: one flag per segment of 4 characters, TRUE for the
\* blank segment
Segment(prefix, k) == SubSeq(prefix, 4 * k + 1, 4 * k + 4)

Decode(prefix) == [k \in 1..(Len(prefix) \div 4) |-> Segment(prefix, k - 1) = BlankSeg]

\* was-last-sibling of the ancestors of the line just printed, from the
\* root down: the entry each frame below the top is at
AncestorChain ==
    [k \in 1..(Len(stack) - 1) |->
        IsLastSibling(stack[k].entries[stack[k].index], stack[k].dir, cli.all)]

\* C6: the prefix of a line at depth d is d segments of 4 characters, the
\* i-th blank if the ancestor at depth i was the last shown sibling of its
\* directory and the vertical bar otherwise; read back, it is the
\* is-last-sibling chain of the ancestors, and it is empty at depth 0.
C6_PrefixIsAncestorChain ==
    JustPrinted =>
        /\ Newest.depth = Len(stack) - 1
        /\ Len(Newest.prefix) = 4 * Newest.depth
        /\ \A k \in 0..(Newest.depth - 1) :
             Segment(Newest.prefix, k) \in {BlankSeg, VertSeg}
        /\ Decode(Newest.prefix) = AncestorChain

\* a line at depth 2 under a last sibling that is itself under a sibling
\* that is not the last, and one the other way round
C6_Witness ==
    /\ pc = "done"
    /\ \E i, j \in Lines :
        /\ out[i].prefix = VertSeg \o BlankSeg
        /\ out[j].prefix = BlankSeg \o VertSeg

\* C7: a line has the terminal connector exactly when its entry is the last
\* of the shown children of its directory in tree order (hidden entries not
\* counting when they are off) and the branch connector otherwise; in the
\* finished output every listed directory with a line has exactly one line
\* with the terminal connector, the last of its lines, and every shown
\* child of the root has its line.
C7_OneTerminalConnectorLast ==
    /\ (out # <<>> /\ Newest.t = "line") =>
         Newest.conn = IF IsLastSibling(Newest.entry, Newest.dir, cli.all)
                       THEN TerminalConn ELSE BranchConn
    /\ pc = "done" =>
         \A c \in 1..ncalls :
             \A j \in Siblings(c) :
                 (out[j].conn = TerminalConn) <=> (\A k \in Siblings(c) : k <= j)
    /\ (pc = "done" /\ TreeRan /\ fs[RootDir].st = "Dir") =>
         Cardinality(Siblings(1)) = Cardinality(Shown(RootDir, cli.all))

\* hidden entries are off; one listed directory printed a directory with
\* the branch connector and then a file with the terminal connector, and
\* one printed a single line, with the terminal connector, for a directory
\* behind which a hidden file sorts
C7_Witness ==
    /\ pc = "done"
    /\ ~cli.all
    /\ \E i, j \in Lines :
        /\ i < j /\ out[i].call = out[j].call
        /\ out[i].entry.kind = "Dir" /\ out[i].conn = BranchConn
        /\ out[j].entry.kind = "File" /\ out[j].conn = TerminalConn
    /\ \E j \in Lines :
        /\ out[j].entry.kind = "Dir" /\ out[j].conn = TerminalConn
        /\ Siblings(out[j].call) = {j}
        /\ \E h \in fs[out[j].dir].items : h.kind = "File" /\ h.name[1] = 46

====
